---------------------------- MODULE Spec2Model ----------------------------
(***************************************************************************)
(* A state-machine model of src/mcp-client.ts: the command-line client     *)
(* that connects to a tool-serving sub-process (MCP), adapts the tools it  *)
(* discovers to the chat-completion tool format, and runs a read/query/    *)
(* print loop whose queries go through the two-round processQuery.         *)
(*                                                                         *)
(* One action is one run of the program between two suspension points      *)
(* (awaits): the code that runs synchronously after a promise settles is   *)
(* part of the action that settles it, including the propagation of a      *)
(* thrown error through the catch and finally blocks it meets.             *)
(*                                                                         *)
(* The call this.mcp.connect(this.transport) at line 72 is not awaited:    *)
(* its promise settles on its own, concurrently with the main flow, and    *)
(* nothing handles its rejection.  The program imports readline/promises   *)
(* (line 3), so it runs on Node >= 17, where an unhandled rejection ends   *)
(* the process with status 1 after printing the error.                     *)
(***************************************************************************)
EXTENDS Integers, Sequences, FiniteSets, TLC

(***************************************************************************)
(* Bounds of the model.                                                    *)
(***************************************************************************)
\* Longest tool-call list a model response carries.
MaxCalls == 2
\* Most tools the sub-process announces.
MaxTools == 1
\* Most non-exit lines the session loop reads in one run.
MaxQueries == 2

(***************************************************************************)
(* Strings.                                                                *)
(***************************************************************************)
\* String.prototype.endsWith
EndsWith(s, suffix) ==
    /\ Len(s) >= Len(suffix)
    /\ SubSeq(s, Len(s) - Len(suffix) + 1, Len(s)) = suffix

RECURSIVE JoinFrom(_, _, _)
JoinFrom(parts, sep, i) ==
    IF i > Len(parts) THEN ""
    ELSE IF i = Len(parts) THEN parts[i]
    ELSE parts[i] \o sep \o JoinFrom(parts, sep, i + 1)

\* Array.prototype.join
Join(parts, sep) == JoinFrom(parts, sep, 1)

\* JavaScript truthiness of a value of type string | null | undefined:
\* null, undefined and the empty string are falsy.
Truthy(opt) == opt.present /\ opt.text # ""

\* A value of type string | null | undefined.
NoText == [present |-> FALSE, text |-> ""]
Text(s) == [present |-> TRUE, text |-> s]

(***************************************************************************)
(* JSON.parse and JSON.stringify, on the fragment of JSON the argument     *)
(* payloads of the model use: a number, or an object whose members are     *)
(* numbers, with insignificant blanks.  Any other text is a SyntaxError.   *)
(***************************************************************************)
Digits == <<"0", "1", "2", "3", "4", "5", "6", "7", "8", "9">>
IsDigit(c) == \E d \in 1..10 : Digits[d] = c
DigitValue(c) == (CHOOSE d \in 1..10 : Digits[d] = c) - 1
Char(s, i) == SubSeq(s, i, i)

\* The index of the first character at or after i that is not a digit.
RECURSIVE EndOfDigits(_, _)
EndOfDigits(s, i) ==
    IF i <= Len(s) /\ IsDigit(Char(s, i)) THEN EndOfDigits(s, i + 1) ELSE i

\* The index of the closing quote of the string opened before i, 0 if none.
RECURSIVE ClosingQuote(_, _)
ClosingQuote(s, i) ==
    IF i > Len(s) THEN 0
    ELSE IF Char(s, i) = "\"" THEN i
    ELSE ClosingQuote(s, i + 1)

RECURSIVE NumberValue(_, _, _, _)
NumberValue(s, i, j, acc) ==
    IF i >= j THEN acc
    ELSE NumberValue(s, i + 1, j, 10 * acc + DigitValue(Char(s, i)))

\* The tokens of s from index i: punctuation, ["str", text], ["num", n],
\* and ["bad", ...] for a character no JSON token starts with.
RECURSIVE Tokens(_, _)
Tokens(s, i) ==
    IF i > Len(s) THEN <<>>
    ELSE LET c == Char(s, i) IN
         IF c = " " THEN Tokens(s, i + 1)
         ELSE IF c \in {"{", "}", ":", ","}
              THEN <<[t |-> c, text |-> "", num |-> 0]>> \o Tokens(s, i + 1)
         ELSE IF c = "\""
              THEN LET e == ClosingQuote(s, i + 1) IN
                   IF e = 0 THEN <<[t |-> "bad", text |-> "", num |-> 0]>>
                   ELSE <<[t |-> "str", text |-> SubSeq(s, i + 1, e - 1), num |-> 0]>>
                        \o Tokens(s, e + 1)
         ELSE IF IsDigit(c)
              THEN LET e == EndOfDigits(s, i) IN
                   <<[t |-> "num", text |-> "", num |-> NumberValue(s, i, e, 0)]>>
                   \o Tokens(s, e)
         ELSE <<[t |-> "bad", text |-> "", num |-> 0]>>

JsonNumber(n) == [kind |-> "number", members |-> <<>>, num |-> n]
JsonObject(ms) == [kind |-> "object", members |-> ms, num |-> 0]
SyntaxError == [kind |-> "SyntaxError", members |-> <<>>, num |-> 0]

\* Object member assignment: a repeated key keeps its place, takes the new value.
PutMember(ms, k, v) ==
    IF \E i \in 1..Len(ms) : ms[i].key = k
    THEN [i \in 1..Len(ms) |-> IF ms[i].key = k THEN [key |-> k, value |-> v] ELSE ms[i]]
    ELSE Append(ms, [key |-> k, value |-> v])

\* The members of an object from token i (just after "{" or ","); SyntaxError
\* unless the tokens are  "key" : number  repeated with commas and closed by "}".
RECURSIVE Members(_, _, _)
Members(ts, i, ms) ==
    IF /\ i + 3 <= Len(ts)
       /\ ts[i].t = "str" /\ ts[i + 1].t = ":" /\ ts[i + 2].t = "num"
    THEN LET ms2 == PutMember(ms, ts[i].text, ts[i + 2].num) IN
         IF ts[i + 3].t = "}" /\ i + 3 = Len(ts) THEN JsonObject(ms2)
         ELSE IF ts[i + 3].t = "," THEN Members(ts, i + 4, ms2)
         ELSE SyntaxError
    ELSE SyntaxError

\* JSON.parse of a text; the result SyntaxError stands for the exception it throws.
ParseText(s) ==
    LET ts == Tokens(s, 1) IN
    IF Len(ts) = 1 /\ ts[1].t = "num" THEN JsonNumber(ts[1].num)
    ELSE IF Len(ts) = 2 /\ ts[1].t = "{" /\ ts[2].t = "}" THEN JsonObject(<<>>)
    ELSE IF Len(ts) >= 2 /\ ts[1].t = "{" THEN Members(ts, 2, <<>>)
    ELSE SyntaxError

\* Argument payloads of a tool call: compact JSON, JSON with blanks, and a
\* text that is not JSON.
ArgumentTexts == {"{\"a\":2,\"b\":3}", "{ \"a\": 2 }", "{a:2"}

\* The parses of the argument payloads, computed once.
ParsedArguments == [s \in ArgumentTexts |-> ParseText(s)]

\* JSON.parse.
JSONParse(s) == IF s \in ArgumentTexts THEN ParsedArguments[s] ELSE ParseText(s)

\* JSON.stringify of a parsed value: no blanks, members in insertion order.
JSONStringify(v) ==
    IF v.kind = "number" THEN ToString(v.num)
    ELSE "{" \o Join([i \in 1..Len(v.members) |->
                        "\"" \o v.members[i].key \o "\":" \o ToString(v.members[i].value)],
                     ",") \o "}"


(***************************************************************************)
(* The Schema Adapter.                                                     *)
(***************************************************************************)
\* An object-valued field that may be missing; a present object or array is
\* truthy even when it is empty.
Missing == [present |-> FALSE, value |-> <<>>]
Given(v) == [present |-> TRUE, value |-> v]

\* An adapter that copies the description and never synthesises one.
openAiToolAdapterNoFallback(tool) ==
    [type |-> "function",
     function |->
        [name |-> tool.name,
         description |-> tool.description.text,
         parameters |->
            [type |-> "object",
             properties |-> IF tool.input_schema.properties.present
                            THEN tool.input_schema.properties.value ELSE <<>>,
             required |-> IF tool.input_schema.required.present
                          THEN tool.input_schema.required.value ELSE <<>>]]]

\* The Schema Adapter: one OpenAI tool spec from one MCP tool descriptor.
openAiToolAdapter(tool) ==
    [type |-> "function",
     function |->
        [name |-> tool.name,
         description |-> IF Truthy(tool.description) THEN tool.description.text
                         ELSE "Tool: " \o tool.name,
         parameters |->
            [type |-> "object",
             properties |-> IF tool.input_schema.properties.present
                            THEN tool.input_schema.properties.value ELSE <<>>,
             required |-> IF tool.input_schema.required.present
                          THEN tool.input_schema.required.value ELSE <<>>]]]

(***************************************************************************)
(* The inputs of a run: what the environment, the sub-process, the model   *)
(* and the user may supply.                                                *)
(***************************************************************************)
\* process.argv[2]; "" stands for a command line without the argument.
Scripts == {"", "server.py", "server.js", "server.txt"}

\* The names the sub-process gives its tools, in discovery order.
ToolNames == <<"add", "echo", "mul">>

\* The shapes a discovered descriptor takes: everything given, only the name
\* given, and an empty description without a required list.  A properties
\* mapping is written as the sequence of its keys.
DescriptorShapes ==
    { [description |-> Text("Adds two numbers"),
       inputSchema |-> [properties |-> Given(<<"a", "b">>), required |-> Given(<<"a", "b">>)]],
      [description |-> NoText,
       inputSchema |-> [properties |-> Missing, required |-> Missing]],
      [description |-> Text(""),
       inputSchema |-> [properties |-> Given(<<>>), required |-> Missing]] }

\* The tool lists listTools may return: up to MaxTools descriptors, the i-th
\* named ToolNames[i].
DiscoveryLists ==
    UNION { { [i \in 1..n |-> [name |-> ToolNames[i],
                               description |-> f[i].description,
                               inputSchema |-> f[i].inputSchema]]
              : f \in [1..n -> DescriptorShapes] }
            : n \in 0..MaxTools }

\* What the model may ask to call: a tool by name (not always a discovered one)
\* with an argument payload.
ToolCallPool ==
    { [name |-> "add", arguments |-> a] : a \in ArgumentTexts }
    \cup { [name |-> "nope", arguments |-> "{\"a\":2,\"b\":3}"] }

\* The i-th tool call of a response carries its own correlation id.
CallId(i) == "call_" \o ToString(i)

ToolCallLists ==
    UNION { { [i \in 1..n |-> [id |-> CallId(i), type |-> "function",
                               function |-> f[i]]]
              : f \in [1..n -> ToolCallPool] }
            : n \in 0..MaxCalls }

\* message.tool_calls: undefined, or a list (which may be empty).
NoCalls == [present |-> FALSE, list |-> <<>>]
Calls(l) == [present |-> TRUE, list |-> l]

\* message.content of a response: null, the empty string, or a text.
FirstContents == {NoText, Text(""), Text("Let me check")}
SecondContents == {NoText, Text(""), Text("The sum is 5")}

\* choices[0].message of the first-round responses.
FirstMessages ==
    { [content |-> c, tool_calls |-> t]
      : c \in FirstContents, t \in {NoCalls} \cup { Calls(l) : l \in ToolCallLists } }

\* choices[0].message of the follow-up responses: the model may ask for tools again.
SecondMessages ==
    { [content |-> c, tool_calls |-> t]
      : c \in SecondContents,
        t \in { NoCalls,
                Calls(<<[id |-> "call_9", type |-> "function",
                         function |-> [name |-> "add", arguments |-> "{\"a\":2,\"b\":3}"]]>>) } }

RECURSIVE SumFrom(_, _)
SumFrom(members, i) ==
    IF i > Len(members) THEN 0 ELSE members[i].value + SumFrom(members, i + 1)

\* The result payload of a successful invocation: the sub-process answers
\* with one text item, the sum of the arguments' members (of a number, itself).
ToolResult(args) ==
    [content |-> <<[type |-> "text",
                    text |-> ToString(IF args.kind = "number" THEN args.num
                                      ELSE SumFrom(args.members, 1))]>>]

\* The lines the user types.
Lines == {"exit", "hello", "exit "}

\* JSON.stringify of a result's content list.
StringifyContent(content) ==
    "[" \o Join([i \in 1..Len(content) |->
                   "{\"type\":\"" \o content[i].type
                   \o "\",\"text\":\"" \o content[i].text \o "\"}"], ",") \o "]"

(***************************************************************************)
(* State.                                                                  *)
(***************************************************************************)
VARIABLES
    pc,           \* where the main flow is suspended
    apiKey,       \* process.env.OPENAI_API_KEY is set
    script,       \* process.argv[2]
    transport,    \* this.transport: "null" or "created"
    connectState, \* the promise of this.mcp.connect: none, pending, connected, failed
    listToolsAt,  \* connectState at the moment listTools was issued ("none": not issued)
    discovered,   \* the descriptors listTools returned
    discoveryDone,\* listTools has returned successfully
    tools,        \* this.tools
    linesRead,    \* lines rl.question has delivered
    query,        \* chatLoop: the line last read ("" before the first)
    nQueries,     \* calls of processQuery
    messages,     \* processQuery: messages
    finalText,    \* processQuery: finalText
    toolResults,  \* callTools: toolResults
    idx,          \* callTools: position of the tool call being handled
    firstResp,    \* the first-round response of the current query
    secondResp,   \* the follow-up response of the current query
    ccLog,        \* the Completion Client calls of the current query
    invLog,       \* the Transport Adapter invocations of the current query
    queryStatus,  \* idle, running, returned, failed
    queryError,   \* the error a failed processQuery threw
    result,       \* what processQuery returned
    console,      \* what the current query printed
    diag,         \* the failure diagnostics printed so far
    failures,     \* the failures that occurred so far
    closeCalls,   \* calls of this.mcp.close
    exitCode      \* the process's exit status, -1 while it runs

sessionVars == <<apiKey, script, transport, connectState, listToolsAt, discovered,
                 discoveryDone, tools, linesRead, query, nQueries>>
queryVars == <<messages, finalText, toolResults, idx, firstResp, secondResp, ccLog,
               invLog, queryStatus, queryError, result, console>>
exitVars == <<diag, failures, closeCalls, exitCode>>
vars == <<pc, sessionVars, queryVars, exitVars>>

\* A response not yet received.
NoResponse == [received |-> FALSE, content |-> NoText, tool_calls |-> NoCalls]
Response(m) == [received |-> TRUE, content |-> m.content, tool_calls |-> m.tool_calls]

Running == exitCode = -1

Init ==
    /\ pc = "load"
    /\ apiKey \in BOOLEAN
    /\ script \in Scripts
    /\ transport = "null"
    /\ connectState = "none"
    /\ listToolsAt = "none"
    /\ discovered = <<>>
    /\ discoveryDone = FALSE
    /\ tools = <<>>
    /\ linesRead = 0
    /\ query = ""
    /\ nQueries = 0
    /\ messages = <<>>
    /\ finalText = <<>>
    /\ toolResults = <<>>
    /\ idx = 0
    /\ firstResp = NoResponse
    /\ secondResp = NoResponse
    /\ ccLog = <<>>
    /\ invLog = <<>>
    /\ queryStatus = "idle"
    /\ queryError = ""
    /\ result = NoText
    /\ console = <<>>
    /\ diag = {}
    /\ failures = {}
    /\ closeCalls = 0
    /\ exitCode = -1


(***************************************************************************)
(* Pieces of the main flow that several actions run.                       *)
(***************************************************************************)
\* A tools field that is sent even when no tool was discovered.
ToolsFieldAlwaysSent == Given(tools)

\* The tools field of a completion request: this.tools when it holds a tool,
\* undefined otherwise.
ToolsField == IF Len(tools) > 0 THEN Given(tools) ELSE Missing

\* The argument of this.openai.chat.completions.create.
CompletionRequest(msgs) ==
    [model |-> "gpt-4o", max_tokens |-> 1000, messages |-> msgs, tools |-> ToolsField]

UserMessage(text) ==
    [role |-> "user", content |-> text, tool_calls |-> NoCalls, tool_call_id |-> NoText]

\* The assistant message that echoes the first-round choice.
AssistantMessage(m) ==
    [role |-> "assistant",
     content |-> IF Truthy(m.content) THEN m.content.text ELSE "",
     tool_calls |-> m.tool_calls,
     tool_call_id |-> NoText]

\* A tool message that does not name the tool call it answers.
ToolMessageWithoutId(r) ==
    [role |-> "tool",
     content |-> StringifyContent(r.result.content),
     tool_calls |-> NoCalls,
     tool_call_id |-> NoText]

ToolMessage(r) ==
    [role |-> "tool",
     content |-> StringifyContent(r.result.content),
     tool_calls |-> NoCalls,
     tool_call_id |-> Text(r.toolCallId)]

\* The line callTools adds to finalText for a tool call.
TraceLine(toolName, args) ==
    "[Calling tool " \o toolName \o " with args " \o JSONStringify(args) \o "]"

\* The line callTools prints for a tool call.
LogLine(toolName, args) ==
    "Calling tool " \o toolName \o " with args " \o JSONStringify(args)

\* The content of a choice pushed whether or not it is truthy.
PushContentUnguarded(ft, content) == Append(ft, content.text)

\* finalText after the content of a choice is pushed, if it is truthy.
PushContent(ft, content) ==
    IF Truthy(content) THEN Append(ft, content.text) ELSE ft

\* main's finally block up to its await: cleanup() calls this.mcp.close().
EnterFinally ==
    /\ closeCalls' = closeCalls + 1
    /\ pc' = "closing"

\* An error that is replaced by a generic one on its way out of processQuery.
ThrowGeneric(kind) ==
    /\ queryStatus' = "failed"
    /\ queryError' = "Error"
    /\ failures' = failures \cup {"Error"}
    /\ closeCalls' = closeCalls + 1
    /\ pc' = "closing"

\* An error thrown inside processQuery: neither processQuery nor chatLoop
\* catches it (chatLoop's finally closes the readline interface), so it
\* reaches main's finally block.
Throw(kind) ==
    /\ queryStatus' = "failed"
    /\ queryError' = kind
    /\ failures' = failures \cup {kind}
    /\ EnterFinally

\* processQuery returns the joined finalText; chatLoop prints it and asks
\* for the next line.
ReturnText(ft) ==
    /\ finalText' = ft
    /\ result' = Text(Join(ft, "\n"))
    /\ queryStatus' = "returned"
    /\ console' = console \o <<"\nResponse:", Join(ft, "\n")>>
    /\ pc' = "prompt"

\* A loop over the tool calls that runs from the last one to the first.
ToolCallAtReversed(toolCalls, i) == toolCalls[Len(toolCalls) + 1 - i]

\* The tool call the i-th iteration of  for (const toolCall of toolCalls)  handles.
ToolCallAt(toolCalls, i) == toolCalls[i]

\* A callTools that starts the invocations of all remaining tool calls at
\* once instead of awaiting each before the next.
CallToolsFromAllAtOnce(m, i, ft, rs) ==
    LET toolCalls == m.tool_calls.list IN
    /\ finalText' = ft
    /\ toolResults' = rs
    /\ idx' = i
    /\ IF i > Len(toolCalls)
       THEN LET msgs == messages \o <<AssistantMessage(m)>>
                        \o [j \in 1..Len(rs) |-> ToolMessage(rs[j])] IN
            /\ messages' = msgs
            /\ ccLog' = Append(ccLog, CompletionRequest(msgs))
            /\ pc' = "second"
            /\ UNCHANGED <<invLog, console, queryStatus, queryError, failures, closeCalls>>
       ELSE /\ invLog' = invLog \o
                    [j \in 1..(Len(toolCalls) + 1 - i) |->
                        [name |-> toolCalls[i + j - 1].function.name,
                         arguments |-> JSONParse(toolCalls[i + j - 1].function.arguments)]]
            /\ pc' = "invoke"
            /\ UNCHANGED <<messages, ccLog, console, queryStatus, queryError, failures,
                           closeCalls>>

\* The loop of callTools from tool call i on, with finalText ft and
\* toolResults rs, up to the next await: either the invocation of tool call
\* i, or, after the last tool call, the follow-up completion request on the
\* extended message list.  m is the first-round choice's message.
CallToolsFrom(m, i, ft, rs) ==
    LET toolCalls == m.tool_calls.list IN
    /\ finalText' = ft
    /\ toolResults' = rs
    /\ idx' = i
    /\ IF i > Len(toolCalls)
       THEN LET msgs == messages \o <<AssistantMessage(m)>>
                        \o [j \in 1..Len(rs) |-> ToolMessage(rs[j])] IN
            /\ messages' = msgs
            /\ ccLog' = Append(ccLog, CompletionRequest(msgs))
            /\ pc' = "second"
            /\ UNCHANGED <<invLog, console, queryStatus, queryError, failures, closeCalls>>
       ELSE LET toolCall == ToolCallAt(toolCalls, i)
                toolName == toolCall.function.name
                args == JSONParse(toolCall.function.arguments) IN
            IF args = SyntaxError
            THEN /\ Throw("ArgumentParseError")
                 /\ UNCHANGED <<messages, ccLog, invLog, console>>
            ELSE /\ console' = Append(console, LogLine(toolName, args))
                 /\ invLog' = Append(invLog, [name |-> toolName, arguments |-> args])
                 /\ pc' = "invoke"
                 /\ UNCHANGED <<messages, ccLog, queryStatus, queryError, failures,
                                closeCalls>>

\* What this.mcp.callTool may answer for a tool name: a result or a reported
\* execution failure for a discovered tool, an unknown-tool error otherwise.
IsDiscovered(toolName) == \E i \in 1..Len(discovered) : discovered[i].name = toolName

(***************************************************************************)
(* Actions.                                                                *)
(***************************************************************************)
\* Module load, lines 8-13: without the credential the module throws before
\* main is called; the runtime prints the uncaught error and exits with 1.
Startup ==
    /\ pc = "load"
    /\ IF apiKey
       THEN /\ pc' = "main"
            /\ UNCHANGED exitVars
       ELSE /\ pc' = "exited"
            /\ exitCode' = 1
            /\ failures' = failures \cup {"MissingCredential"}
            /\ diag' = diag \cup {"Uncaught"}
            /\ UNCHANGED closeCalls
    /\ UNCHANGED <<sessionVars, queryVars>>

\* main without a script argument: prints the usage line and returns.
MainUsage ==
    /\ pc = "main"
    /\ script = ""
    /\ pc' = "exited"
    /\ exitCode' = 0
    /\ UNCHANGED <<sessionVars, queryVars, diag, failures, closeCalls>>

\* An extension check that comes after the transport is created and connect
\* is started.
MainBadExtensionLate ==
    /\ pc = "main"
    /\ script # ""
    /\ ~EndsWith(script, ".js") /\ ~EndsWith(script, ".py")
    /\ transport' = "created"
    /\ connectState' = "pending"
    /\ failures' = failures \cup {"BadExtension"}
    /\ diag' = diag \cup {"FailedToConnect"}
    /\ EnterFinally
    /\ UNCHANGED <<apiKey, script, listToolsAt, discovered, discoveryDone, tools,
                   linesRead, query, nQueries, queryVars, exitCode>>

\* main with a script argument whose extension connectToServer rejects: the
\* catch block prints and rethrows, main's finally starts cleanup.
MainBadExtension ==
    /\ pc = "main"
    /\ script # ""
    /\ ~EndsWith(script, ".js") /\ ~EndsWith(script, ".py")
    /\ failures' = failures \cup {"BadExtension"}
    /\ diag' = diag \cup {"FailedToConnect"}
    /\ EnterFinally
    /\ UNCHANGED <<sessionVars, queryVars, exitCode>>

\* main with a .js or .py script: connectToServer creates the transport,
\* starts connect without awaiting it, and requests the tool list.
MainConnect ==
    /\ pc = "main"
    /\ script # ""
    /\ EndsWith(script, ".js") \/ EndsWith(script, ".py")
    /\ transport' = "created"
    /\ connectState' = "pending"
    /\ listToolsAt' = connectState'
    /\ pc' = "listTools"
    /\ UNCHANGED <<apiKey, script, discovered, discoveryDone, tools, linesRead, query,
                   nQueries, queryVars, exitVars>>

\* The promise of this.mcp.connect resolves.
ConnectResolves ==
    /\ Running
    /\ connectState = "pending"
    /\ connectState' = "connected"
    /\ UNCHANGED <<pc, apiKey, script, transport, listToolsAt, discovered, discoveryDone,
                   tools, linesRead, query, nQueries, queryVars, exitVars>>

\* The promise of this.mcp.connect rejects; no handler is attached to it, so
\* the runtime prints the error and ends the process with status 1.  No
\* finally block runs.
ConnectRejects ==
    /\ Running
    /\ connectState = "pending"
    /\ connectState' = "failed"
    /\ failures' = failures \cup {"ConnectRejected"}
    /\ diag' = diag \cup {"Uncaught"}
    /\ exitCode' = 1
    /\ pc' = "exited"
    /\ UNCHANGED <<apiKey, script, transport, listToolsAt, discovered, discoveryDone,
                   tools, linesRead, query, nQueries, queryVars, closeCalls>>

\* listTools answers: the tools are adapted and stored, the tool names are
\* printed, chatLoop creates the readline interface and asks for a line.
ListToolsReturns(ds) ==
    /\ pc = "listTools"
    /\ discovered' = ds
    /\ discoveryDone' = TRUE
    /\ tools' = [i \in 1..Len(ds) |->
                   openAiToolAdapter([name |-> ds[i].name,
                                      description |-> ds[i].description,
                                      input_schema |-> ds[i].inputSchema])]
    /\ pc' = "prompt"
    /\ UNCHANGED <<apiKey, script, transport, connectState, listToolsAt, linesRead,
                   query, nQueries, queryVars, exitVars>>

\* listTools fails: the catch block prints and rethrows, main's finally
\* starts cleanup.
ListToolsFails ==
    /\ pc = "listTools"
    /\ failures' = failures \cup {"ConnectionError"}
    /\ diag' = diag \cup {"FailedToConnect"}
    /\ EnterFinally
    /\ UNCHANGED <<sessionVars, queryVars, exitCode>>

\* The record of the current query is dropped when the next line is read.
ForgetQuery ==
    /\ messages' = <<>>
    /\ finalText' = <<>>
    /\ toolResults' = <<>>
    /\ idx' = 0
    /\ firstResp' = NoResponse
    /\ secondResp' = NoResponse
    /\ ccLog' = <<>>
    /\ invLog' = <<>>
    /\ queryStatus' = "idle"
    /\ queryError' = ""
    /\ result' = NoText
    /\ console' = <<>>

\* A test of the exit token that ignores blanks around it.
IsExitTokenTrimmed(line) == line \in {"exit", "exit ", " exit"}

\* The test  query === "exit"  of chatLoop.
IsExitToken(line) == line = "exit"

\* A message list that is kept from one query to the next.
FreshMessagesAppended(text) == Append(messages, UserMessage(text))

\* The message list processQuery starts with.
FreshMessages(text) == <<UserMessage(text)>>

\* rl.question delivers the exit token: the loop breaks, chatLoop returns,
\* main's finally starts cleanup.
ReadExit(line) ==
    /\ pc = "prompt"
    /\ IsExitToken(line)
    /\ linesRead' = linesRead + 1
    /\ query' = line
    /\ ForgetQuery
    /\ EnterFinally
    /\ UNCHANGED <<apiKey, script, transport, connectState, listToolsAt, discovered,
                   discoveryDone, tools, nQueries, diag, failures, exitCode>>

\* rl.question delivers another line: processQuery builds the message list
\* and sends the first completion request.
ReadQuery(line) ==
    /\ pc = "prompt"
    /\ ~IsExitToken(line)
    /\ nQueries < MaxQueries
    /\ linesRead' = linesRead + 1
    /\ query' = line
    /\ nQueries' = nQueries + 1
    /\ messages' = FreshMessages(line)
    /\ ccLog' = <<CompletionRequest(FreshMessages(line))>>
    /\ finalText' = <<>>
    /\ toolResults' = <<>>
    /\ idx' = 0
    /\ firstResp' = NoResponse
    /\ secondResp' = NoResponse
    /\ invLog' = <<>>
    /\ queryStatus' = "running"
    /\ queryError' = ""
    /\ result' = NoText
    /\ console' = <<>>
    /\ pc' = "first"
    /\ UNCHANGED <<apiKey, script, transport, connectState, listToolsAt, discovered,
                   discoveryDone, tools, exitVars>>

\* The first completion answers with message m.
FirstCompletionReturns(m) ==
    /\ pc = "first"
    /\ firstResp' = Response(m)
    /\ LET ft == PushContent(finalText, m.content) IN
       IF m.tool_calls.present
       THEN /\ CallToolsFrom(m, 1, ft, toolResults)
            /\ UNCHANGED result
       ELSE /\ ReturnText(ft)
            /\ UNCHANGED <<messages, toolResults, idx, ccLog, invLog, queryError,
                           failures, closeCalls>>
    /\ UNCHANGED <<sessionVars, secondResp, diag, exitCode>>

\* A completion request fails (either round).
CompletionFails ==
    /\ pc \in {"first", "second"}
    /\ Throw("CompletionError")
    /\ UNCHANGED <<sessionVars, messages, finalText, toolResults, idx, firstResp,
                   secondResp, ccLog, invLog, result, console, diag, exitCode>>

\* The pending tool invocation answers: the trace line and the result are
\* recorded and the loop of callTools goes on.
CallToolReturns ==
    /\ pc = "invoke"
    /\ LET toolCall == ToolCallAt(firstResp.tool_calls.list, idx)
           toolName == toolCall.function.name
           args == invLog[Len(invLog)].arguments IN
       /\ IsDiscovered(toolName)
       /\ CallToolsFrom(firstResp, idx + 1,
                        Append(finalText, TraceLine(toolName, args)),
                        Append(toolResults, [toolCallId |-> toolCall.id,
                                             result |-> ToolResult(args)]))
    /\ UNCHANGED <<sessionVars, firstResp, secondResp, result, diag, exitCode>>

\* The pending tool invocation fails: unknown tool, or a failure the
\* sub-process reports.
CallToolFails ==
    /\ pc = "invoke"
    /\ Throw(IF IsDiscovered(ToolCallAt(firstResp.tool_calls.list, idx).function.name)
             THEN "ToolExecutionError" ELSE "ToolNotFound")
    /\ UNCHANGED <<sessionVars, messages, finalText, toolResults, idx, firstResp,
                   secondResp, ccLog, invLog, result, console, diag, exitCode>>

\* A follow-up round that is repeated for as long as the model asks for tools.
SecondCompletionAsksAgain(m) ==
    /\ pc = "second"
    /\ secondResp' = Response(m)
    /\ IF m.tool_calls.present
       THEN /\ finalText' = PushContent(finalText, m.content)
            /\ ccLog' = Append(ccLog, CompletionRequest(messages))
            /\ UNCHANGED <<pc, result, queryStatus, console>>
       ELSE /\ ReturnText(PushContent(finalText, m.content))
            /\ UNCHANGED ccLog
    /\ UNCHANGED <<sessionVars, messages, toolResults, idx, firstResp, invLog,
                   queryError, exitVars>>

\* The follow-up completion answers with message m; its tool calls are not read.
SecondCompletionReturns(m) ==
    /\ pc = "second"
    /\ secondResp' = Response(m)
    /\ ReturnText(PushContent(finalText, m.content))
    /\ UNCHANGED <<sessionVars, messages, toolResults, idx, firstResp, ccLog, invLog,
                   queryError, exitVars>>

\* this.mcp.close resolves: cleanup clears the transport and returns, main
\* calls process.exit(0).
CloseReturns ==
    /\ pc = "closing"
    /\ transport' = "null"
    /\ exitCode' = 0
    /\ pc' = "exited"
    /\ UNCHANGED <<apiKey, script, connectState, listToolsAt, discovered, discoveryDone,
                   tools, linesRead, query, nQueries, queryVars, diag, failures,
                   closeCalls>>

\* A cleanup that lets the failure of close escape: the error leaves main and
\* the runtime ends the process with status 1.
CloseFailsEscalates ==
    /\ pc = "closing"
    /\ failures' = failures \cup {"CleanupError"}
    /\ diag' = diag \cup {"Uncaught"}
    /\ exitCode' = 1
    /\ pc' = "exited"
    /\ UNCHANGED <<sessionVars, queryVars, closeCalls>>

\* this.mcp.close rejects: cleanup prints and returns, main calls
\* process.exit(0).
CloseFails ==
    /\ pc = "closing"
    /\ failures' = failures \cup {"CleanupError"}
    /\ diag' = diag \cup {"FailedToCleanup"}
    /\ exitCode' = 0
    /\ pc' = "exited"
    /\ UNCHANGED <<sessionVars, queryVars, closeCalls>>

Next ==
    \/ Startup
    \/ MainUsage
    \/ MainBadExtension
    \/ MainConnect
    \/ ConnectResolves
    \/ ConnectRejects
    \/ \E ds \in DiscoveryLists : ListToolsReturns(ds)
    \/ ListToolsFails
    \/ \E line \in Lines : ReadExit(line)
    \/ \E line \in Lines : ReadQuery(line)
    \/ \E m \in FirstMessages : FirstCompletionReturns(m)
    \/ CompletionFails
    \/ CallToolReturns
    \/ CallToolFails
    \/ \E m \in SecondMessages : SecondCompletionReturns(m)
    \/ CloseReturns
    \/ CloseFails

Spec == Init /\ [][Next]_vars


(***************************************************************************)
(* Properties.                                                             *)
(***************************************************************************)
\* The first-round response of the current query is in, with this tool-call list.
FirstCalls == firstResp.tool_calls.list

\* The first-round choice carries no tool-call request: the list is absent,
\* or present and empty.
ZeroToolCalls == firstResp.received /\ Len(FirstCalls) = 0

\* Every argument payload of the first-round tool calls is valid JSON.
AllArgumentsParse ==
    \A i \in 1..Len(FirstCalls) : JSONParse(FirstCalls[i].function.arguments) # SyntaxError

\* The position of the first tool call whose arguments are not valid JSON, 0 if none.
FirstUnparsable ==
    IF AllArgumentsParse THEN 0
    ELSE CHOOSE i \in 1..Len(FirstCalls) :
            /\ JSONParse(FirstCalls[i].function.arguments) = SyntaxError
            /\ \A j \in 1..(i - 1) : JSONParse(FirstCalls[j].function.arguments) # SyntaxError

\* C1: a query whose first-round choice carries zero tool-call requests (list
\* absent, or present but empty) makes exactly one Completion Client call and
\* no tool invocation, and returns the joined output text.
C1_ZeroToolCallsOneCompletion ==
    ZeroToolCalls =>
        /\ Len(ccLog) = 1
        /\ Len(invLog) = 0
        /\ queryStatus = "returned"
        /\ result = Text(Join(finalText, "\n"))

\* C2: a query whose first-round choice carries N >= 1 tool calls, all with
\* valid arguments and all invoked successfully, makes exactly two Completion
\* Client calls and exactly N invocations; the i-th invocation is the i-th
\* requested call, by name and parsed arguments, and no invocation is ever
\* made out of that order.
C2_ToolCallsInvokedInOrder ==
    (firstResp.received /\ Len(FirstCalls) >= 1) =>
        /\ Len(invLog) <= Len(FirstCalls)
        /\ \A i \in 1..Len(invLog) :
              invLog[i] = [name |-> FirstCalls[i].function.name,
                           arguments |-> JSONParse(FirstCalls[i].function.arguments)]
        /\ Len(ccLog) <= 2
        /\ (AllArgumentsParse /\ Len(toolResults) = Len(FirstCalls)) =>
              /\ Len(ccLog) = 2
              /\ Len(invLog) = Len(FirstCalls)

\* C2 witness: a returned query with two different tool calls, both invoked.
C2_Witness ==
    /\ queryStatus = "returned"
    /\ Len(FirstCalls) = 2
    /\ FirstCalls[1].function # FirstCalls[2].function
    /\ Len(invLog) = 2
    /\ Len(ccLog) = 2

\* The output-text sequence the claim describes: first-round content if
\* non-empty, one trace line per tool call in request order, second-round
\* content if non-empty.
ExpectedOutput ==
    (IF firstResp.content.present /\ firstResp.content.text # ""
     THEN <<firstResp.content.text>> ELSE <<>>)
    \o [i \in 1..Len(FirstCalls) |->
          "[Calling tool " \o FirstCalls[i].function.name \o " with args "
          \o JSONStringify(JSONParse(FirstCalls[i].function.arguments)) \o "]"]
    \o (IF secondResp.received /\ secondResp.content.present /\ secondResp.content.text # ""
        THEN <<secondResp.content.text>> ELSE <<>>)

\* C3: the string a successful processQuery returns is the newline-join of
\* the first-round content (if non-empty), one trace line per tool call in
\* request order, and the second-round content (if non-empty), in this order.
C3_ResultIsOrderedJoin ==
    queryStatus = "returned" => result = Text(Join(ExpectedOutput, "\n"))

\* C3 witness: a returned query with first-round text, two tool calls (one
\* with blanks in its arguments) and second-round text.
C3_Witness ==
    /\ queryStatus = "returned"
    /\ firstResp.content = Text("Let me check")
    /\ Len(FirstCalls) = 2
    /\ FirstCalls[1].function.arguments = "{ \"a\": 2 }"
    /\ secondResp.content = Text("The sum is 5")
    /\ result = Text("Let me check\n[Calling tool add with args {\"a\":2}]\n"
                     \o "[Calling tool add with args {\"a\":2,\"b\":3}]\nThe sum is 5")

\* The adapted tool-spec list of the session.
AdaptedTools ==
    [i \in 1..Len(discovered) |->
        openAiToolAdapter([name |-> discovered[i].name,
                           description |-> discovered[i].description,
                           input_schema |-> discovered[i].inputSchema])]

\* C4: every Completion Client call of a query, first-round and follow-up
\* alike, has no tools field when the session discovered zero tools and
\* carries the full adapted list when it discovered at least one.
C4_ToolsFieldPolicy ==
    \A i \in 1..Len(ccLog) :
        ccLog[i].tools = IF Len(discovered) = 0 THEN Missing ELSE Given(AdaptedTools)

\* C4 witness: a follow-up call made in a session that discovered no tool.
C4_Witness ==
    /\ Len(ccLog) = 2
    /\ Len(discovered) = 0
    /\ ccLog[2].tools = Missing

\* C5: when the k-th tool call fails (arguments not valid JSON, or its
\* invocation fails), processQuery fails with that error, the later tool
\* calls are not invoked, no follow-up completion is requested and nothing
\* is returned; an unparsable tool call is itself not invoked.
C5_FailedToolCallAbortsBatch ==
    LET k == FirstUnparsable IN
    /\ k > 0 =>
          /\ Len(invLog) < k
          /\ Len(ccLog) = 1
          /\ ~result.present
          /\ Len(toolResults) = k - 1 =>
                /\ queryStatus = "failed"
                /\ queryError = "ArgumentParseError"
                /\ idx = k
    /\ queryError = "ArgumentParseError" => k > 0
    /\ queryError \in {"ToolNotFound", "ToolExecutionError"} =>
          /\ queryStatus = "failed"
          /\ idx \in 1..Len(FirstCalls)
          /\ Len(invLog) = idx
          /\ Len(toolResults) = idx - 1
          /\ Len(ccLog) = 1
          /\ ~result.present

\* C5 witness: the second of two tool calls has unparsable arguments; the
\* first was invoked, the second was not.
C5_Witness ==
    /\ queryError = "ArgumentParseError"
    /\ Len(FirstCalls) = 2
    /\ FirstUnparsable = 2
    /\ Len(invLog) = 1
    /\ Len(ccLog) = 1

\* C6: a failed processQuery (ArgumentParseError, ToolNotFound or
\* ToolExecutionError) leaves the session running: no cleanup is started,
\* the connection is not released and the loop asks for the next line.
C6_QueryFailureKeepsSession ==
    (queryStatus = "failed"
     /\ queryError \in {"ArgumentParseError", "ToolNotFound", "ToolExecutionError"}) =>
        /\ closeCalls = 0
        /\ pc = "prompt"
        /\ Running

\* C7: no failure ends the process without a printed diagnostic.
C7_EveryFailureDiagnosed ==
    (~Running /\ failures # {}) => diag # {}

\* The client object has been constructed in main.
Constructed == apiKey /\ script # "" /\ pc \notin {"load", "main"}

\* C8: once the client is constructed, the connection release is performed
\* exactly once before the process terminates.
C8_CleanupExactlyOnce ==
    /\ closeCalls <= 1
    /\ (~Running /\ Constructed) => closeCalls = 1

\* C9: when connecting or tool discovery fails, the failure is reported, no
\* input line is read, processQuery is never called, and cleanup has run
\* when the process terminates.
C9_FailedConnectNeverStartsSession ==
    (failures \cap {"ConnectRejected", "ConnectionError"} # {}) =>
        /\ diag # {}
        /\ linesRead = 0
        /\ nQueries = 0
        /\ ~Running => closeCalls = 1

\* C10: tool discovery is requested only after connect has completed
\* successfully, and a tool is invoked only after discovery has completed.
C10_DiscoveryAfterConnect ==
    /\ listToolsAt \in {"none", "connected"}
    /\ Len(invLog) > 0 => discoveryDone

\* The number of output-text entries that come before the trace lines.
TraceOffset == IF firstResp.received /\ Truthy(firstResp.content) THEN 1 ELSE 0

\* C11: the trace line "[Calling tool <name> with args <json>]" of a tool call
\* is appended to the output-text sequence before the invocation of the tool
\* is started, so every invocation that was started, pending or failed
\* included, has its trace line in the sequence.
C11_TraceBeforeInvocation ==
    \A i \in 1..Len(invLog) :
        /\ Len(finalText) >= TraceOffset + i
        /\ finalText[TraceOffset + i] = TraceLine(invLog[i].name, invLog[i].arguments)

\* C12: the message list of the follow-up Completion Client call is exactly
\* the user message, one assistant message that echoes the first-round content
\* ("" when there is none) and the full tool-call list, and then one tool
\* message per tool call, in request order, each carrying the id of its tool
\* call: every tool message answers a tool call of the assistant message and
\* every tool call has exactly one tool message.
C12_FollowUpMessageList ==
    Len(ccLog) = 2 =>
        LET msgs == ccLog[2].messages
            n == Len(FirstCalls) IN
        /\ Len(msgs) = 2 + n
        /\ msgs[1].role = "user"
        /\ msgs[1].content = query
        /\ msgs[2].role = "assistant"
        /\ msgs[2].content = (IF firstResp.content.present THEN firstResp.content.text ELSE "")
        /\ msgs[2].tool_calls = firstResp.tool_calls
        /\ \A i \in 1..n :
              /\ msgs[2 + i].role = "tool"
              /\ msgs[2 + i].tool_call_id = Text(FirstCalls[i].id)
        /\ \A i \in 1..n :
              Cardinality({j \in 3..Len(msgs) : msgs[j].tool_call_id = Text(FirstCalls[i].id)}) = 1

\* C12 witness: a follow-up call after two tool calls whose first-round
\* choice had no content.
C12_Witness ==
    /\ pc = "second"
    /\ Len(ccLog) = 2
    /\ Len(FirstCalls) = 2
    /\ ~firstResp.content.present
    /\ Len(ccLog[2].messages) = 4

\* C13: whatever queries came before, returned or failed, the first Completion
\* Client call of a processQuery(text) carries a message list of exactly one
\* user message whose content is text, so no message of an earlier query
\* appears in it; and a query leaves the tool-spec list as discovery built it.
C13_FreshMessageListPerQuery ==
    /\ Len(ccLog) >= 1 =>
          ccLog[1].messages = <<[role |-> "user", content |-> query,
                                 tool_calls |-> NoCalls, tool_call_id |-> NoText]>>
    /\ discoveryDone => tools = AdaptedTools

\* C13 witness: the first completion request of the second query of a
\* session with a tool, pending.
C13_Witness ==
    /\ nQueries = 2
    /\ pc = "first"
    /\ Len(ccLog) = 1
    /\ query = "hello"
    /\ Len(tools) = 1

\* C14: a configuration error aborts before any process or network activity.
\* A script argument that ends in neither .py nor .js makes connectToServer
\* fail before a transport is created, a connect is attempted or discovery
\* is requested; a missing credential ends the process at startup, before
\* main runs and so before any connection attempt.
C14_ConfigErrorBeforeActivity ==
    /\ (script = "server.txt" /\ pc \notin {"load", "main"}) =>
          /\ "BadExtension" \in failures \/ "MissingCredential" \in failures
          /\ transport = "null"
          /\ connectState = "none"
          /\ listToolsAt = "none"
          /\ ~discoveryDone
          /\ nQueries = 0
    /\ (~apiKey /\ pc # "load") =>
          /\ pc = "exited"
          /\ failures = {"MissingCredential"}
          /\ exitCode = 1
          /\ transport = "null"
          /\ connectState = "none"
          /\ listToolsAt = "none"
          /\ closeCalls = 0

\* C14 witness: the process has ended after the extension check failed.
C14_Witness ==
    /\ pc = "exited"
    /\ script = "server.txt"
    /\ "BadExtension" \in failures
    /\ "FailedToConnect" \in diag

\* The i-th tool spec has the name of the i-th discovered descriptor, the
\* parameters type "object", and the descriptor's properties and required
\* list where it has them, an empty mapping and an empty sequence otherwise.
SameNameAndParameters(i) ==
    LET d == discovered[i]
        f == tools[i].function IN
    /\ tools[i].type = "function"
    /\ f.name = d.name
    /\ f.parameters.type = "object"
    /\ f.parameters.properties =
          (IF d.inputSchema.properties.present THEN d.inputSchema.properties.value ELSE <<>>)
    /\ f.parameters.required =
          (IF d.inputSchema.required.present THEN d.inputSchema.required.value ELSE <<>>)

C16_CleanupFailureNotEscalated ==
    /\ "CleanupError" \in failures =>
          /\ "FailedToCleanup" \in diag
          /\ pc = "exited"
          /\ exitCode = 0
          /\ closeCalls = 1
    /\ "FailedToCleanup" \in diag => "CleanupError" \in failures

\* C16 witness: close failed at the end of a session that ran a query.
C16_Witness ==
    /\ "CleanupError" \in failures
    /\ nQueries >= 1
    /\ pc = "exited"

\* The tool invocations that were started and have neither returned nor failed.
PendingInvocations ==
    Len(invLog) - Len(toolResults)
    - (IF queryError \in {"ToolNotFound", "ToolExecutionError"} THEN 1 ELSE 0)

\* C17: at most one processQuery is in flight and at most one tool invocation
\* is pending.  The loop waits for a line only when no query is running, a
\* running query is at one of its awaits (or the process was ended under
\* it), and the i-th invocation is started only when the i-1 before it have
\* returned.
C17_OneQueryOneInvocation ==
    /\ PendingInvocations \in {0, 1}
    /\ PendingInvocations = 1 => pc \in {"invoke", "exited"}
    /\ pc = "invoke" =>
          /\ PendingInvocations = 1
          /\ Len(invLog) = idx
          /\ Len(toolResults) = idx - 1
    /\ pc = "prompt" => queryStatus \in {"idle", "returned"}
    /\ queryStatus = "running" => pc \in {"first", "invoke", "second", "exited"}
    /\ nQueries \in {linesRead, linesRead - 1}

\* C17 witness: the second invocation of a query is pending, the first has
\* returned.
C17_Witness ==
    /\ pc = "invoke"
    /\ idx = 2
    /\ Len(invLog) = 2
    /\ Len(toolResults) = 1
    /\ queryStatus = "running"

\* processQuery has returned to chatLoop, which has printed the text.
QueryDone == queryStatus = "returned" /\ pc = "prompt"

\* What holds of every state of a query that makes one tool round: at most
\* two Completion Client calls; every invocation is of a tool call of the
\* first response; once the second response is in, the query is done with
\* exactly the invocations the first response asked for; and at each await
\* the answer that lets the query go on can arrive.
OneRoundState ==
    /\ Len(ccLog) <= 2
    /\ Len(invLog) <= Len(FirstCalls)
    /\ secondResp.received =>
          /\ queryStatus = "returned"
          /\ Len(ccLog) = 2
          /\ Len(invLog) = Len(FirstCalls)
    /\ pc = "first" => ENABLED (\E m \in FirstMessages : FirstCompletionReturns(m))
    /\ (pc = "invoke" /\ IsDiscovered(invLog[Len(invLog)].name)) => ENABLED CallToolReturns
    /\ pc = "second" => ENABLED (\E m \in SecondMessages : SecondCompletionReturns(m))

\* What holds of every step of a query: it starts at the first completion
\* request; from there it is done, or runs the tool calls one after the
\* other and then waits for the follow-up completion, after which it is
\* done.  (With a tool-call list that is present and empty callTools has
\* nothing to await and the follow-up request is sent in the same step.)  The
\* only other steps end the query with an error or end the process.
OneRoundStep ==
    /\ (queryStatus # "running" /\ queryStatus' = "running") =>
          (pc = "prompt" /\ pc' = "first" /\ Len(ccLog') = 1 /\ Len(invLog') = 0)
    /\ (queryStatus = "running" /\ <<pc, idx, queryStatus>>' # <<pc, idx, queryStatus>>) =>
          \/ queryStatus' = "failed"
          \/ pc' = "exited"
          \/ pc = "first" /\ QueryDone'
          \/ pc = "first" /\ pc' = "invoke" /\ idx' = 1
          \/ pc = "first" /\ pc' = "second" /\ firstResp'.tool_calls = Calls(<<>>)
          \/ pc = "invoke" /\ pc' = "invoke" /\ idx' = idx + 1 /\ idx' <= Len(FirstCalls)
          \/ pc = "invoke" /\ pc' = "second" /\ idx = Len(FirstCalls)
          \/ pc = "second" /\ QueryDone'

\* C18: processQuery performs exactly one tool round.  On every path it makes
\* at most two Completion Client calls; the tool calls of the second response
\* are never executed; and it follows only Idle -> AwaitingFirstCompletion ->
\* Done or Idle -> AwaitingFirstCompletion -> ExecutingTools ->
\* AwaitingFollowupCompletion -> Done, each step moving forward (the tool
\* loop by one tool call), so that it terminates provided each completion
\* call and each invocation returns.
C18_ExactlyOneToolRound == []OneRoundState /\ [][OneRoundStep]_vars

\* C18 witness: a query is done after a tool round whose second response
\* asked for another tool call.
C18_Witness ==
    /\ QueryDone
    /\ secondResp.received
    /\ secondResp.tool_calls.present
    /\ Len(FirstCalls) >= 1
    /\ Len(invLog) = Len(FirstCalls)

\* C19: the session loop stops on a line that is exactly "exit" and does not
\* forward it: no query is started for it and cleanup is called at once.
\* Every other line is forwarded to processQuery exactly once, as it was
\* read; the loop asks for the next line only after it printed
\* "\nResponse:" and the returned text.  After the loop stops the connection
\* is released (close is called, once) and the process can always go on to
\* its end.
C19_ExitStopsLoop ==
    /\ query = "exit" =>
          /\ pc \in {"closing", "exited"}
          /\ queryStatus = "idle"
          /\ Len(ccLog) = 0
          /\ linesRead = nQueries + 1
          /\ closeCalls = 1
    /\ (linesRead >= 1 /\ query # "exit") =>
          /\ linesRead = nQueries
          /\ queryStatus # "idle"
          /\ ccLog[1].messages[1].content = query
    /\ (pc = "prompt" /\ linesRead >= 1) =>
          LET n == Len(console) IN
          /\ queryStatus = "returned"
          /\ result.present
          /\ n >= 2
          /\ console[n - 1] = "\nResponse:"
          /\ console[n] = result.text
    /\ pc = "closing" => ENABLED (CloseReturns \/ CloseFails)
    /\ pc = "exited" => ~Running

\* C19 witness: the process has ended with status 0 after a session that
\* forwarded one line and then read the line "exit".
C19_Witness ==
    /\ query = "exit"
    /\ linesRead = 2
    /\ nQueries = 1
    /\ pc = "exited"
    /\ exitCode = 0
    /\ transport = "null"

\* C20: the process terminates with exit status 0 on every path through main:
\* the usage path, a failed connection or discovery, and a processQuery
\* failure that escapes the session loop included.  (Without the credential
\* main is never called.)
C20_ExitStatusAlwaysZero ==
    (pc = "exited" /\ apiKey) => exitCode = 0

=============================================================================
